---- MODULE Spec2Model ----
(***************************************************************************)
(* DroneExtinguisher (src/dynprog.py): the dynamic programme that splits   *)
(* an ordered list of water bags into day batches, gives every batch a     *)
(* drone, and reconstructs the plan from the filled cost table.            *)
(*                                                                         *)
(* Python lists and numpy arrays are functions over 0..n-1, so that every  *)
(* index below is the index of the source.  The two lists the backtrace    *)
(* grows with insert(0, x) are sequences.  np.inf is the value Inf, which  *)
(* absorbs every addition and is above every finite cost of the model.     *)
(***************************************************************************)
EXTENDS Integers, Sequences, FiniteSets, TLC

\* ------------------------------------------------------------------ bounds
MaxBags == 2
MaxDrones == 2

BagContents == {1, 2}
Locations == {<<1, 1>>}
Budgets == {3, 7}
UsageValues == {0, 1}

\* ------------------------------------------------------------ value domain
Inf == 1000000000
Unbound == -1

Add(a, b) == IF a = Inf \/ b = Inf THEN Inf ELSE a + b

Array0(S, n) == [0 .. (n - 1) -> S]
Len0(f) == Cardinality(DOMAIN f)
FromSeq(s) == [x \in 0 .. (Len(s) - 1) |-> s[x + 1]]
Matrix(rows) == FromSeq([r \in 1 .. Len(rows) |-> FromSeq(rows[r])])

\* usage_cost is None, or an array of which shape[1] is the number of drones
None == [isNone |-> TRUE, shape1 |-> 0, data |-> <<>>]
Table(cols, d) == [isNone |-> FALSE, shape1 |-> cols, data |-> d]

\* ------------------------------------------------------------------ inputs
Args(b, p, budget, u) ==
    [forest_location |-> <<0, 0>>, bags |-> b, bag_locations |-> p,
     liter_cost_per_km |-> <<1, 2>>, liter_budget_per_day |-> budget, usage_cost |-> u]

\* every list of at most MaxBags bags, with as many locations or not, and no
\* usage table or one of at most MaxDrones columns
BoundedArgs(a) ==
    \E n \in 0 .. MaxBags : \E m \in 0 .. MaxBags :
        \E b \in Array0(BagContents, n) : \E p \in Array0(Locations, m) :
            \E budget \in Budgets :
                \/ a = Args(b, p, budget, None)
                \/ \E c \in 0 .. MaxDrones : \E d \in Array0(Array0(UsageValues, c), n) :
                      a = Args(b, p, budget, Table(c, d))

FiveBags == FromSeq(<<3, 9, 2, 3, 19>>)
FiveLocations == FromSeq(<<<<3, 4>>, <<3, 4>>, <<3, 4>>, <<3, 4>>, <<3, 4>>>>)

TestMixedOrder ==
    [forest_location |-> <<0, 0>>, bags |-> FiveBags, bag_locations |-> FiveLocations,
     liter_cost_per_km |-> <<1, 10>>, liter_budget_per_day |-> 20,
     usage_cost |-> Table(3, Matrix(<<<<1, 1, 0>>, <<1, 1, 0>>, <<1, 1, 0>>,
                                      <<1, 1, 0>>, <<0, 1, 1>>>>))]

TestBacktraceSimple ==
    [forest_location |-> <<0, 0>>, bags |-> FiveBags, bag_locations |-> FiveLocations,
     liter_cost_per_km |-> <<1, 10>>, liter_budget_per_day |-> 20,
     usage_cost |-> Table(3, Matrix(<<<<0, 1, 1>>, <<0, 1, 1>>, <<1, 0, 1>>,
                                      <<1, 0, 1>>, <<1, 1, 0>>>>))]

TestVaryingDistance ==
    [forest_location |-> <<0, 0>>, bags |-> FromSeq(<<3, 4, 6, 5, 3, 4>>),
     bag_locations |-> FromSeq(<<<<3, 4>>, <<5, 0>>, <<0, 1>>, <<1, 0>>, <<5, 0>>, <<2, 0>>>>),
     liter_cost_per_km |-> <<1, 1>>, liter_budget_per_day |-> 35,
     usage_cost |-> Table(3, Matrix(<<<<0, 2, 0>>, <<0, 0, 1>>, <<0, 6, 0>>,
                                      <<4, 2, 1>>, <<3, 0, 4>>, <<3, 4, 1>>>>))]

\* one bag whose only drone pays for being used
NegativeUsage ==
    [forest_location |-> <<0, 0>>, bags |-> FromSeq(<<1>>), bag_locations |-> FromSeq(<<<<0, 0>>>>),
     liter_cost_per_km |-> <<1, 2>>, liter_budget_per_day |-> 3,
     usage_cost |-> Table(1, Matrix(<<<<-1>>>>))]

\* budgets that leave no room for any bag
ZeroBudget ==
    [forest_location |-> <<0, 0>>, bags |-> FromSeq(<<1, 2>>),
     bag_locations |-> FromSeq(<<<<1, 1>>, <<1, 1>>>>),
     liter_cost_per_km |-> <<1, 2>>, liter_budget_per_day |-> 0,
     usage_cost |-> Table(2, Matrix(<<<<0, 1>>, <<1, 0>>>>))]

BelowZeroBudget ==
    [forest_location |-> <<0, 0>>, bags |-> FromSeq(<<1>>), bag_locations |-> FromSeq(<<<<0, 0>>>>),
     liter_cost_per_km |-> <<1, 2>>, liter_budget_per_day |-> -1, usage_cost |-> None]

TestCases ==
    {TestMixedOrder, TestBacktraceSimple, TestVaryingDistance, NegativeUsage,
     ZeroBudget, BelowZeroBudget}

\* ------------------------------------------------------------------- state
VARIABLES
    pc, error, args,
    forest_location, bags, bag_locations, liter_cost_per_km, liter_budget_per_day,
    usage_cost, num_bags, num_drones,
    travel_costs_in_liters, idle_cost, optimal_cost, backtrace_memory,
    k, i, first_bag, drone_num, idle_reads,
    lowest, leftmost_indices, drone_list, temp, bag_idx

fields == <<forest_location, bags, bag_locations, liter_cost_per_km,
            liter_budget_per_day, num_bags, num_drones>>
dpLocals == <<k, i, first_bag, drone_num, idle_reads>>
btLocals == <<leftmost_indices, drone_list, temp, bag_idx>>
vars == <<pc, error, args, fields, usage_cost, travel_costs_in_liters, idle_cost,
          optimal_cost, backtrace_memory, dpLocals, lowest, btLocals>>

Init ==
    /\ BoundedArgs(args) \/ args \in TestCases
    /\ pc = "new"
    /\ error = "none"
    /\ forest_location = <<0, 0>>
    /\ bags = <<>>
    /\ bag_locations = <<>>
    /\ liter_cost_per_km = <<0, 1>>
    /\ liter_budget_per_day = 0
    /\ usage_cost = None
    /\ num_bags = 0
    /\ num_drones = 0
    /\ travel_costs_in_liters = <<>>
    /\ idle_cost = <<>>
    /\ optimal_cost = <<>>
    /\ backtrace_memory = <<>>
    /\ k = 0
    /\ i = 0
    /\ first_bag = Unbound
    /\ drone_num = Unbound
    /\ idle_reads = {}
    /\ lowest = 0
    /\ leftmost_indices = <<>>
    /\ drone_list = <<>>
    /\ temp = 0
    /\ bag_idx = 0

\* ------------------------------------------------------------- constructor
\* __init__: copies its arguments, sizes the tables from them, checks nothing
Construct ==
    /\ pc = "new"
    /\ forest_location' = args.forest_location
    /\ bags' = args.bags
    /\ bag_locations' = args.bag_locations
    /\ liter_cost_per_km' = args.liter_cost_per_km
    /\ liter_budget_per_day' = args.liter_budget_per_day
    /\ usage_cost' = args.usage_cost
    /\ num_bags' = Len0(args.bags)
    /\ num_drones' = IF args.usage_cost.isNone THEN 1 ELSE args.usage_cost.shape1
    /\ travel_costs_in_liters' = <<>>
    /\ idle_cost' = [r \in 0 .. (num_bags' - 1) |-> [c \in 0 .. (num_bags' - 1) |-> -1]]
    /\ optimal_cost' = [r \in 0 .. num_bags' |-> [c \in 0 .. (num_drones' - 1) |-> 0]]
    /\ backtrace_memory' = <<>>
    /\ pc' = "constructed"
    /\ UNCHANGED <<error, args, dpLocals, lowest, btLocals>>

\* ------------------------------------------------------------ travel costs
\* A distance is the square root of an integer: it is carried as that integer.
compute_euclidean_distance(point1, point2) ==
    (point1[1] - point2[1]) * (point1[1] - point2[1])
        + (point1[2] - point2[2]) * (point1[2] - point2[2])

\* np.ceil(2 * sqrt(squared) * num / den): the least n with
\* (n * den)^2 >= 4 * squared * num^2
RECURSIVE CeilFrom(_, _, _)
CeilFrom(n, squared, rate) ==
    IF (n * rate[2]) * (n * rate[2]) >= 4 * squared * rate[1] * rate[1]
    THEN n
    ELSE CeilFrom(n + 1, squared, rate)

travel_cost(index) ==
    CeilFrom(0, compute_euclidean_distance(bag_locations[index], forest_location),
             liter_cost_per_km)

\* the loop appends one cost per bag and stops with IndexError at the first
\* bag that has no location
fill_travel_costs_in_liters ==
    /\ pc = "constructed"
    /\ LET have == Len0(bag_locations)
           done == IF have < num_bags THEN have ELSE num_bags
       IN /\ travel_costs_in_liters' = [x \in 0 .. (done - 1) |-> travel_cost(x)]
          /\ IF have < num_bags
             THEN pc' = "crashed" /\ error' = "IndexError"
             ELSE pc' = "filled" /\ error' = error
    /\ UNCHANGED <<args, fields, usage_cost, idle_cost, optimal_cost, backtrace_memory,
                   dpLocals, lowest, btLocals>>

\* -------------------------------------------------------------- cost model
RECURSIVE compute_sequence_idle_time_in_liters(_, _)
compute_sequence_idle_time_in_liters(a, b) ==
    IF a > b
    THEN liter_budget_per_day
    ELSE compute_sequence_idle_time_in_liters(a, b - 1) - travel_costs_in_liters[b] - bags[b]

\* the last-day rule tested before the budget
compute_idle_cost_last_day_first(a, b, idle_time_in_liters) ==
    IF b + 1 = num_bags THEN 0
    ELSE IF idle_time_in_liters < 0 THEN Inf
    ELSE idle_time_in_liters * idle_time_in_liters * idle_time_in_liters

compute_idle_cost(a, b, idle_time_in_liters) ==
    IF idle_time_in_liters < 0 THEN Inf
    ELSE IF b + 1 = num_bags THEN 0
    ELSE idle_time_in_liters * idle_time_in_liters * idle_time_in_liters

\* reads the table the solver holds now: after the None default it is zeros
RECURSIVE compute_sequence_usage_cost(_, _, _)
compute_sequence_usage_cost(a, b, drone) ==
    IF a > b
    THEN 0
    ELSE compute_sequence_usage_cost(a, b - 1, drone) + usage_cost.data[b][drone]

\* ------------------------------------------------------ dynamic_programming
\* the idle_cost fill and the default for a missing usage table
DPBegin ==
    /\ pc = "filled"
    /\ idle_cost' = [r \in 0 .. (num_bags - 1) |-> [c \in 0 .. (num_bags - 1) |->
            IF r <= c
            THEN compute_idle_cost(r, c, compute_sequence_idle_time_in_liters(r, c))
            ELSE idle_cost[r][c]]]
    /\ usage_cost' = IF usage_cost.isNone
                     THEN Table(num_drones, [r \in 0 .. (num_bags - 1) |->
                                                [c \in 0 .. (num_drones - 1) |-> 0]])
                     ELSE usage_cost
    /\ k' = 0
    /\ i' = 0
    /\ first_bag' = Unbound
    /\ drone_num' = Unbound
    /\ idle_reads' = {}
    /\ pc' = "dp_loop"
    /\ UNCHANGED <<error, args, fields, travel_costs_in_liters, optimal_cost,
                   backtrace_memory, lowest, btLocals>>

\* the three inner loops, as the sequence of (j, h, l) they visit
RECURSIVE range_l(_, _, _, _)
range_l(j, h, l, drones) ==
    IF l > drones THEN <<>> ELSE <<<<j, h, l>>>> \o range_l(j, h, l + 1, drones)

RECURSIVE range_h(_, _, _)
range_h(j, h, drones) ==
    IF h > drones THEN <<>> ELSE range_l(j, h, h, drones) \o range_h(j, h + 1, drones)

RECURSIVE range_j(_, _, _)
range_j(j, bagCount, drones) ==
    IF j >= bagCount THEN <<>> ELSE range_h(j, 0, drones) \o range_j(j + 1, bagCount, drones)

\* h held at k: only the previous states with exactly k drones
Triples_last_count_only(bagCount, drones) ==
    SelectSeq(range_j(0, bagCount, drones), LAMBDA t : t[2] = drones)

Triples(bagCount, drones) == range_j(0, bagCount, drones)

\* the usage cost of the batch taken from its second bag on
temp_optimal_cost_skips_first_bag(bagCount, t) ==
    Add(Add(optimal_cost[t[1]][t[2]], idle_cost[t[1]][bagCount - 1]),
        compute_sequence_usage_cost(t[1] + 1, bagCount - 1, t[3]))

temp_optimal_cost(bagCount, t) ==
    Add(Add(optimal_cost[t[1]][t[2]], idle_cost[t[1]][bagCount - 1]),
        compute_sequence_usage_cost(t[1], bagCount - 1, t[3]))

\* a tie replaces the recorded minimizer
ImprovesOrTies(cost, memory_value) == cost <= memory_value

Improves(cost, memory_value) == cost < memory_value

\* one pass of the loop body over the triples from position n on
RECURSIVE Scan(_, _, _, _)
Scan(ts, n, bagCount, acc) ==
    IF n > Len(ts)
    THEN acc
    ELSE LET t == ts[n]
             cost == temp_optimal_cost(bagCount, t)
             better == Improves(cost, acc.memory_value)
         IN Scan(ts, n + 1, bagCount,
                 [temp_optimal_cost_list |-> Append(acc.temp_optimal_cost_list, cost),
                  memory_value |-> IF better THEN cost ELSE acc.memory_value,
                  first_bag |-> IF better THEN t[1] ELSE acc.first_bag,
                  drone_num |-> IF better THEN t[3] ELSE acc.drone_num,
                  reads |-> acc.reads \cup {<<t[1], bagCount - 1>>}])

RECURSIVE min(_)
min(list) ==
    IF Len(list) = 1
    THEN list[1]
    ELSE LET rest == min(Tail(list))
         IN IF list[1] <= rest THEN list[1] ELSE rest

SetItem(dict, key, value) ==
    [x \in DOMAIN dict \cup {key} |-> IF x = key THEN value ELSE dict[x]]

\* one (k, i) cell of the table; first_bag and drone_num are locals of the
\* whole function and keep their value from cell to cell
DPCell ==
    /\ pc = "dp_loop"
    /\ k < num_drones
    /\ LET r == Scan(Triples(i, k), 1, i,
                     [temp_optimal_cost_list |-> <<>>, memory_value |-> Inf,
                      first_bag |-> first_bag, drone_num |-> drone_num,
                      reads |-> idle_reads])
           filled == r.temp_optimal_cost_list # <<>>
           record == filled /\ k = num_drones - 1
           unbound == record /\ r.first_bag = Unbound
       IN /\ first_bag' = r.first_bag
          /\ drone_num' = r.drone_num
          /\ idle_reads' = r.reads
          /\ optimal_cost' = IF filled
                             THEN [optimal_cost EXCEPT ![i][k] = min(r.temp_optimal_cost_list)]
                             ELSE optimal_cost
          /\ backtrace_memory' = IF record /\ ~unbound
                                 THEN SetItem(backtrace_memory, <<i, k>>,
                                              <<r.first_bag, r.drone_num>>)
                                 ELSE backtrace_memory
          /\ IF unbound
             THEN /\ pc' = "crashed"
                  /\ error' = "UnboundLocalError"
                  /\ UNCHANGED <<k, i>>
             ELSE /\ pc' = pc
                  /\ error' = error
                  /\ IF i < num_bags
                     THEN i' = i + 1 /\ k' = k
                     ELSE i' = 0 /\ k' = k + 1
    /\ UNCHANGED <<args, fields, usage_cost, travel_costs_in_liters, idle_cost,
                   lowest, btLocals>>

DPReturn ==
    /\ pc = "dp_loop"
    /\ k >= num_drones
    /\ pc' = "dp_done"
    /\ UNCHANGED <<error, args, fields, usage_cost, travel_costs_in_liters, idle_cost,
                   optimal_cost, backtrace_memory, dpLocals, lowest, btLocals>>

\* ------------------------------------------------------------- lowest_cost
\* optimal_cost[-1][-1]: the last row always exists, the last column only
\* when there is a drone
lowest_cost ==
    /\ pc = "dp_done"
    /\ IF num_drones = 0
       THEN pc' = "crashed" /\ error' = "IndexError" /\ lowest' = lowest
       ELSE pc' = "cost_returned" /\ error' = error
            /\ lowest' = optimal_cost[num_bags][num_drones - 1]
    /\ UNCHANGED <<args, fields, usage_cost, travel_costs_in_liters, idle_cost,
                   optimal_cost, backtrace_memory, dpLocals, btLocals>>

\* ------------------------------------------------------ backtrace_solution
BacktraceBegin ==
    /\ pc = "cost_returned"
    /\ leftmost_indices' = <<>>
    /\ drone_list' = <<>>
    /\ temp' = optimal_cost[num_bags][num_drones - 1]
    /\ bag_idx' = num_bags
    /\ pc' = "backtrace"
    /\ UNCHANGED <<error, args, fields, usage_cost, travel_costs_in_liters, idle_cost,
                   optimal_cost, backtrace_memory, dpLocals, lowest>>

\* the inner while: walk down from drone_idx while the cost with one drone
\* fewer is no higher than temp
RECURSIVE drone_scan(_, _, _)
drone_scan(drone_idx, cost, bagCount) ==
    IF drone_idx > 0 /\ ~(cost < optimal_cost[bagCount][drone_idx - 1])
    THEN drone_scan(drone_idx - 1, cost, bagCount)
    ELSE drone_idx

\* a day starts only where the cost strictly rises
earlier_day_strict(previous, cost) == previous < cost

earlier_day(previous, cost) == previous <= cost

BacktraceStep ==
    /\ pc = "backtrace"
    /\ bag_idx > 0
    /\ drone_list' = <<drone_scan(num_drones - 1, temp, bag_idx)>> \o drone_list
    /\ leftmost_indices' =
          IF earlier_day(optimal_cost[bag_idx - 1][num_drones - 1], temp)
          THEN <<bag_idx - 1>> \o leftmost_indices
          ELSE leftmost_indices
    /\ bag_idx' = bag_idx - 1
    /\ temp' = optimal_cost[bag_idx - 1][num_drones - 1]
    /\ UNCHANGED <<pc, error, args, fields, usage_cost, travel_costs_in_liters, idle_cost,
                   optimal_cost, backtrace_memory, dpLocals, lowest>>

BacktraceReturn ==
    /\ pc = "backtrace"
    /\ bag_idx = 0
    /\ pc' = "returned"
    /\ UNCHANGED <<error, args, fields, usage_cost, travel_costs_in_liters, idle_cost,
                   optimal_cost, backtrace_memory, dpLocals, lowest, btLocals>>

Next ==
    \/ Construct
    \/ fill_travel_costs_in_liters
    \/ DPBegin
    \/ DPCell
    \/ DPReturn
    \/ lowest_cost
    \/ BacktraceBegin
    \/ BacktraceStep
    \/ BacktraceReturn

Spec == Init /\ [][Next]_vars

\* ------------------------------------------------- plans, scored from scratch
\* A plan for the first b bags: the set of bags that start a day, and a drone
\* for every bag.  Scored without any of the solver's tables.
Weight(x) == travel_costs_in_liters[x] + bags[x]

RECURSIVE SumOver(_, _)
SumOver(S, f) ==
    IF S = {} THEN 0
    ELSE LET x == CHOOSE y \in S : TRUE IN Add(f[x], SumOver(S \ {x}, f))

IdleTime(s, e) == liter_budget_per_day - SumOver(s .. e, [x \in s .. e |-> Weight(x)])

Cube(n) == n * n * n

BatchEnd(S, s, b) ==
    IF \E x \in S : x > s
    THEN (CHOOSE x \in S : x > s /\ \A y \in S : y > s => x <= y) - 1
    ELSE b - 1

BatchIdleCost(s, e) ==
    IF IdleTime(s, e) < 0 THEN Inf
    ELSE IF e = num_bags - 1 THEN 0
    ELSE Cube(IdleTime(s, e))

PlanCost(S, d, b, data) ==
    Add(SumOver(S, [s \in S |-> BatchIdleCost(s, BatchEnd(S, s, b))]),
        SumOver(0 .. (b - 1), [x \in 0 .. (b - 1) |-> data[x][d[x]]]))

\* every bag is in a day, a day has one drone, drones never go down
ValidPlan(S, d, b) ==
    /\ b > 0 => 0 \in S
    /\ \A x \in 1 .. (b - 1) : d[x - 1] <= d[x] /\ (x \notin S => d[x] = d[x - 1])

PlanCosts(b, drones, data) ==
    {PlanCost(S \cup (IF b > 0 THEN {0} ELSE {}), d, b, data) :
        <<S, d>> \in {p \in (SUBSET (1 .. (b - 1))) \X [0 .. (b - 1) -> 0 .. drones] :
                        ValidPlan(p[1] \cup {0}, p[2], b)}}

Least(S) == CHOOSE m \in S : \A x \in S : m <= x

MinPlanCost(b, drones, data) == Least(PlanCosts(b, drones, data))

ZeroTable == [x \in 0 .. (num_bags - 1) |-> [c \in {0} |-> 0]]

Starts(list) == {list[n] : n \in 1 .. Len(list)}

NonNegativeUsage ==
    \A x \in DOMAIN usage_cost.data : \A c \in DOMAIN usage_cost.data[x] :
        usage_cost.data[x][c] >= 0

\* C1: after fill_travel_costs_in_liters() and dynamic_programming(), every
\* optimal_cost[b][k] is the least cost over all ways to split bags 0..b-1 into
\* day batches with one drone of 0..k per batch and drones never going down
\* (idle time cubed, 0 for the batch ending at bag N-1, infinite when negative,
\* plus the usage cost of each bag's drone); lowest_cost() returns the entry
\* for b = N, k = K-1; the two test instances cost 2414 and 6.
C1_OptimalCostIsLeastPlanCost ==
    /\ pc = "dp_done" =>
          \A b \in 0 .. num_bags : \A c \in 0 .. (num_drones - 1) :
              optimal_cost[b][c] = MinPlanCost(b, c, usage_cost.data)
    /\ pc = "cost_returned" =>
          /\ lowest = MinPlanCost(num_bags, num_drones - 1, usage_cost.data)
          /\ args = TestMixedOrder => lowest = 2414
          /\ args = TestVaryingDistance => lowest = 6

\* a two-day plan with a change of drone is the cheapest one
C1_Witness ==
    /\ pc = "cost_returned"
    /\ num_bags >= 2
    /\ num_drones >= 2
    /\ 0 < lowest /\ lowest < Inf
    /\ lowest < optimal_cost[num_bags][0]
    /\ backtrace_memory[<<num_bags, num_drones - 1>>][1] > 0

\* C2: for every feasible instance the plan backtrace_solution() returns costs
\* exactly lowest_cost() when its batches are scored with idle cost plus the
\* usage cost of each bag's listed drone; for the five-bag test instance it
\* returns ([0,2,4], [0,0,1,1,2]).
C2_BacktracePlanCostsLowestCost ==
    pc = "returned" =>
        /\ lowest < Inf =>
              PlanCost(Starts(leftmost_indices), FromSeq(drone_list), num_bags,
                       usage_cost.data) = lowest
        /\ args = TestBacktraceSimple =>
              leftmost_indices = <<0, 2, 4>> /\ drone_list = <<0, 0, 1, 1, 2>>

\* C3: when one bag's content plus travel cost exceeds the budget, whatever its
\* position and the number of drones, dynamic_programming() completes and
\* lowest_cost() returns infinity.
C3_HeavyBagYieldsInfinity ==
    (/\ pc \notin {"new", "constructed"}
     /\ Len0(travel_costs_in_liters) = num_bags
     /\ liter_budget_per_day > 0
     /\ num_drones >= 1
     /\ \E x \in 0 .. (num_bags - 1) : Weight(x) > liter_budget_per_day)
    => /\ pc # "crashed"
       /\ pc = "cost_returned" => lowest = Inf

\* C4: the returned drone list has N entries, never decreases from one bag to
\* the next, and changes only at a bag that is in the returned day-start list.
C4_DroneListFollowsDays ==
    pc = "returned" =>
        /\ Len(drone_list) = num_bags
        /\ \A n \in 1 .. (Len(drone_list) - 1) :
              /\ drone_list[n] <= drone_list[n + 1]
              /\ drone_list[n] # drone_list[n + 1] => n \in Starts(leftmost_indices)

\* C5: with N >= 1 bags and non-negative usage costs, the returned day-start
\* list starts with 0, is strictly increasing, and holds only bags of 0..N-1.
C5_DayStartsWellFormed ==
    (pc = "returned" /\ num_bags >= 1 /\ NonNegativeUsage) =>
        /\ Len(leftmost_indices) >= 1
        /\ leftmost_indices[1] = 0
        /\ \A n \in 1 .. (Len(leftmost_indices) - 1) :
              leftmost_indices[n] < leftmost_indices[n + 1]
        /\ \A n \in 1 .. Len(leftmost_indices) :
              leftmost_indices[n] \in 0 .. (num_bags - 1)

\* a returned plan of two days, and a first bag whose prefix costs nothing
C5_Witness ==
    /\ pc = "returned"
    /\ NonNegativeUsage
    /\ Len(leftmost_indices) >= 2
    /\ optimal_cost[1][num_drones - 1] = 0

\* C6: after dynamic_programming(), optimal_cost[b][k] >= optimal_cost[b][k+1]
\* for every b in 0..N and k in 0..K-2.
C6_MoreDronesNeverCostMore ==
    pc = "dp_done" =>
        \A b \in 0 .. num_bags : \A c \in 0 .. (num_drones - 2) :
            optimal_cost[b][c] >= optimal_cost[b][c + 1]

\* a second drone that makes a prefix strictly cheaper
C6_Witness ==
    /\ pc = "dp_done"
    /\ \E b \in 1 .. num_bags : \E c \in 0 .. (num_drones - 2) :
          optimal_cost[b][c] > optimal_cost[b][c + 1]

\* what the interface is not meant to accept
Malformed ==
    \/ Len0(args.bags) # Len0(args.bag_locations)
    \/ ~args.usage_cost.isNone /\ args.usage_cost.shape1 = 0
    \/ args.liter_budget_per_day <= 0

\* C7: bags and bag_locations of different lengths, a usage table with zero
\* drone columns, or a budget <= 0 are rejected at construction, before any
\* table is built.
C7_MalformedInputRejected ==
    Malformed =>
        /\ pc \in {"new", "rejected"}
        /\ idle_cost = <<>> /\ optimal_cost = <<>> /\ travel_costs_in_liters = <<>>

\* C8: with usage_cost None the solver acts as with one drone of usage cost 0:
\* dynamic_programming() completes without error, and every optimal_cost entry
\* and lowest_cost() are those of an explicit all-zero N x 1 table.
C8_NoUsageTableMeansZeroCost ==
    (args.usage_cost.isNone /\ ~Malformed) =>
        /\ pc # "crashed"
        /\ pc \notin {"new"} => num_drones = 1
        /\ pc = "dp_done" =>
              \A b \in 0 .. num_bags : optimal_cost[b][0] = MinPlanCost(b, 0, ZeroTable)
        /\ pc = "cost_returned" => lowest = MinPlanCost(num_bags, 0, ZeroTable)

\* the (j, h, l) the loops visit for b bags with all drones, and their order
TripleSet(b) ==
    {t \in (0 .. (b - 1)) \X (0 .. (num_drones - 1)) \X (0 .. (num_drones - 1)) : t[2] <= t[3]}

Before(t, u) ==
    \/ t[1] < u[1]
    \/ t[1] = u[1] /\ t[2] < u[2]
    \/ t[1] = u[1] /\ t[2] = u[2] /\ t[3] < u[3]

TransitionCost(b, t) ==
    Add(Add(optimal_cost[t[1]][t[2]], idle_cost[t[1]][b - 1]),
        SumOver(t[1] .. (b - 1), [x \in t[1] .. (b - 1) |-> usage_cost.data[x][t[3]]]))

Minimizers(b) ==
    LET least == Least({TransitionCost(b, t) : t \in TripleSet(b)})
    IN {t \in TripleSet(b) : TransitionCost(b, t) = least}

FirstMinimizer(b) ==
    LET M == Minimizers(b) IN CHOOSE t \in M : \A u \in M : t = u \/ Before(t, u)

LastMinimizer(b) ==
    LET M == Minimizers(b) IN CHOOSE t \in M : \A u \in M : t = u \/ Before(u, t)

Recorded(b) == backtrace_memory[<<b, num_drones - 1>>]

\* C9, as stated: for every b in 1..N with finite optimal_cost[b][K-1],
\* backtrace_memory[(b, K-1)] holds the j and l of the LAST (j, h, l), in scan
\* order, that attains the minimum transition cost.
C9_RecordsLastMinimizer ==
    (pc = "dp_done" /\ num_drones >= 1 /\ ~Malformed) =>
        \A b \in 1 .. num_bags :
            optimal_cost[b][num_drones - 1] < Inf =>
                LET t == LastMinimizer(b) IN Recorded(b) = <<t[1], t[3]>>

\* C9, amended: for every b in 1..N with finite optimal_cost[b][K-1],
\* backtrace_memory[(b, K-1)] holds the j and l of the FIRST (j, h, l), in scan
\* order, that attains the minimum transition cost.
C9_RecordsFirstMinimizer ==
    (pc = "dp_done" /\ num_drones >= 1) =>
        \A b \in 1 .. num_bags :
            optimal_cost[b][num_drones - 1] < Inf =>
                /\ <<b, num_drones - 1>> \in DOMAIN backtrace_memory
                /\ LET t == FirstMinimizer(b) IN Recorded(b) = <<t[1], t[3]>>

\* a finite optimum that two triples with different (j, l) attain
C9_Witness ==
    /\ pc = "dp_done"
    /\ num_drones >= 1
    /\ \E b \in 1 .. num_bags :
          /\ optimal_cost[b][num_drones - 1] < Inf
          /\ LET t == LastMinimizer(b) IN <<t[1], t[3]>> # Recorded(b)

UpperCells == {c \in (0 .. (num_bags - 1)) \X (0 .. (num_bags - 1)) : c[1] <= c[2]}
LowerCells == {c \in (0 .. (num_bags - 1)) \X (0 .. (num_bags - 1)) : c[1] > c[2]}

IdleEntryInfiniteIffNegative(c) ==
    /\ idle_cost[c[1]][c[2]] = Inf <=> IdleTime(c[1], c[2]) < 0
    /\ idle_cost[c[1]][c[2]] >= 0

LowerCellsUntouched ==
    /\ \A c \in LowerCells : idle_cost[c[1]][c[2]] = -1
    /\ idle_reads \subseteq UpperCells

\* C10, as stated: after dynamic_programming(), for 0 <= i <= j < N the entry
\* idle_cost[i][j] is infinite exactly when the budget minus the summed travel
\* cost and content of bags i..j is negative, otherwise finite, non-negative
\* and 0 only when j = N-1; entries with i > j are never written or read.
C10_IdleZeroOnlyOnLastBag ==
    (pc = "dp_done" /\ ~Malformed) =>
        /\ \A c \in UpperCells :
              /\ IdleEntryInfiniteIffNegative(c)
              /\ idle_cost[c[1]][c[2]] = 0 => c[2] = num_bags - 1
        /\ LowerCellsUntouched

\* C10, amended: as stated, except that the entry is 0 only when j = N-1 or
\* the idle time of bags i..j is exactly 0.
C10_IdleZeroOnLastBagOrExactFit ==
    pc = "dp_done" =>
        /\ \A c \in UpperCells :
              /\ IdleEntryInfiniteIffNegative(c)
              /\ idle_cost[c[1]][c[2]] = 0 =>
                    c[2] = num_bags - 1 \/ IdleTime(c[1], c[2]) = 0
        /\ LowerCellsUntouched

\* a batch that is not the last one and fills its day exactly, next to an
\* infeasible batch, with the recurrence having read the table
C10_Witness ==
    /\ pc = "dp_done"
    /\ \E c \in UpperCells : c[2] < num_bags - 1 /\ idle_cost[c[1]][c[2]] = 0
    /\ \E c \in UpperCells : idle_cost[c[1]][c[2]] = Inf
    /\ LowerCells # {}
    /\ idle_reads # {}
====
